---- MODULE Spec2Model ----
(***************************************************************************)
(* Model of live_news_urdu.py (src/next.py): the controller loop of main,  *)
(* the frame loop and teardown of run_cycle, the buffered pipe to the      *)
(* ffmpeg child process, and the wraparound crop of the ticker strip.      *)
(*                                                                         *)
(* Time is counted in ticks of 1/TicksPerSec second, measured from the     *)
(* `start` timestamp of the running cycle (run_cycle only ever uses        *)
(* time.time() - start).                                                   *)
(***************************************************************************)
EXTENDS Integers, Sequences, FiniteSets, TLC

\* ---------------------------------------------------------------- constants
FPS == 24
WIDTH == 1920
TICKER_SPEED_PX_PER_SEC == 160
TICKER_GAP == 140
\* time.sleep(min(ahead, 0.02)): the cap is 1/50 second
SleepCapHz == 50
\* proc.wait(timeout=5), in seconds
WaitTimeout == 5
HEIGHT == 1080
TICKER_HEIGHT == 90

\* smallest resolution in which both 1/FPS and 0.02 s are whole ticks
TicksPerSec == FPS * (SleepCapHz \div 2)
FramePeriod == TicksPerSec \div FPS
SleepCap == TicksPerSec \div SleepCapHz

\* ------------------------------------------------------------------- bounds
MaxCycles == 2
MaxDuration == 90
MaxWork == 30
MaxOversleep == 1
MaxTextW == 1

Durations == {MaxDuration \div 2, MaxDuration}
WorkTimes == {0, 1, MaxWork}
TextWidths == 0..MaxTextW
Assets == {"studio.jpg", "anchor.png", "Urdu.ttf"}

Min(a, b) == IF a <= b THEN a ELSE b

VARIABLES
    mainPc,       \* position of main
    mainErr,      \* exception that terminated main, or "none"
    ffmpegOk,     \* environment: `ffmpeg -version` runs
    missing,      \* environment: asset files that do not exist
    cycle,        \* number of cycles started by main
    headlines,    \* generation of the headlines in use (0 = none fetched)
    ttsGen,       \* generation of the audio in TTS_FILE
    strip_w,      \* width of the ticker strip of this cycle
    duration,     \* duration_sec argument of run_cycle, in ticks
    runPc,        \* position inside run_cycle
    now,          \* time.time() - start
    elapsed,      \* `elapsed` read at line 179 of the current tick
    offset,       \* scroll offset of the current tick
    frame_idx,    \* frame_idx of run_cycle
    composited,   \* number of frames composited in this cycle
    frame,        \* the frame composited in the current tick (its number)
    writes,       \* frames passed to proc.stdin.write in this cycle, in order
    sleepFor,     \* argument of the pending time.sleep
    buffer,       \* frames held in the BufferedWriter of proc.stdin
    delivered,    \* frames pushed into the pipe of this cycle's process
    stdinOpen,    \* proc.stdin not yet closed
    procs,        \* state of the encoder process of each cycle
    exc,          \* exception pending in run_cycle, or "none"
    closeErr,     \* proc.stdin.close() raised and the error was swallowed
    tdLog,        \* teardown steps executed in this cycle, in order
    waited,       \* seconds spent in the last proc.wait
    kills,        \* SIGKILLs sent in this cycle
    sigToExited,  \* a signal was sent to a process that had already exited
    tdRuns,       \* teardown sequences finished in this cycle
    failedAt,     \* number of the write that raised, 0 if none
    chanAfter,    \* channel state recorded at the end of each teardown
    winW,         \* width of the ticker window (WIDTH in the program)
    window,       \* the ticker window built by the crop, column by column
    spawns,       \* number of subprocess.Popen calls made so far
    frameH,       \* height of the frame (HEIGHT in the program)
    tickerH,      \* height of the ticker band (TICKER_HEIGHT in the program)
    baseRows,     \* the shared base frame, row by row
    frameRows,    \* the frame composited last, row by row
    stripCols,    \* the ticker strip, column by column
    ur_list,      \* argument of make_ticker_text
    ticker_text   \* result of make_ticker_text

vars == <<mainPc, mainErr, ffmpegOk, missing, cycle, headlines, ttsGen,
          strip_w, duration, runPc, now, elapsed, offset, frame_idx,
          composited, frame, writes, sleepFor, buffer, delivered, stdinOpen,
          procs, exc, closeErr, tdLog, waited, kills, sigToExited,
          tdRuns, failedAt, chanAfter, winW, window, spawns, frameH,
          tickerH, baseRows, frameRows, stripCols, ur_list, ticker_text>>

envVars == <<ffmpegOk, missing>>
cropVars == <<winW, window>>
frameVars == <<frameH, tickerH, baseRows, frameRows, stripCols>>
textVars == <<ur_list, ticker_text>>
mainVars == <<mainPc, mainErr, cycle, headlines, ttsGen>>
loopVars == <<now, elapsed, offset, frame_idx, composited, frame, writes,
              sleepFor>>
chanVars == <<buffer, delivered, stdinOpen, procs>>
tdVars == <<closeErr, tdLog, waited, kills, sigToExited, tdRuns, chanAfter>>

\* ------------------------------------------------------------ pure helpers
\* variant: the elapsed time truncated to whole seconds before scaling
OffsetWholeSeconds(e, sw) ==
    ((e \div TicksPerSec) * TICKER_SPEED_PX_PER_SEC) % sw

\* offset = int((elapsed * TICKER_SPEED_PX_PER_SEC) % strip_w), elapsed = e
\* ticks: float modulo first, truncation to int afterwards.
Offset(e, sw) ==
    ((e * TICKER_SPEED_PX_PER_SEC) % (sw * TicksPerSec)) \div TicksPerSec

\* A column of an image is named by what it shows: a column number of the
\* ticker strip, Transparent for the zero pixels PIL puts where a crop box
\* reaches beyond the image, Fill for the TICKER_BG fill of Image.new.
Transparent == 0 - 1
Fill == 0 - 2

\* Image.new("RGBA", (W, TICKER_HEIGHT), TICKER_BG)
NewWindow(W) == [x \in 1..W |-> Fill]

\* ticker_strip.crop((l, 0, r, strip_h)) of a strip sw columns wide
Crop(sw, l, r) ==
    [i \in 1..(r - l) |-> IF l + i - 1 < sw THEN l + i - 1 ELSE Transparent]

\* win.paste(img, (x0, 0)) without mask: img overwrites the columns it covers
Paste(win, img, x0) ==
    [x \in 1..Len(win) |->
        IF x - 1 >= x0 /\ x - 1 < x0 + Len(img) THEN img[x - x0] ELSE win[x]]

\* variant: the part of the window past the end of the strip is not filled
WindowNoWrap(sw, off, W) ==
    IF off + W <= sw
      THEN Paste(NewWindow(W), Crop(sw, off, off + W), 0)
      ELSE Paste(NewWindow(W), Crop(sw, off, sw), 0)

\* lines 184-193 of run_cycle, for a window W columns wide
Window(sw, off, W) ==
    IF off + W <= sw
      THEN Paste(NewWindow(W), Crop(sw, off, off + W), 0)
      ELSE LET first == Crop(sw, off, sw)
               second_width == W - (sw - off)
               second == Crop(sw, 0, second_width)
           IN  Paste(Paste(NewWindow(W), first, 0), second, Len(first))

\* frame.paste(window, (0, y0), window) for a window h rows high and as wide
\* as the frame: the rows the window covers show the ticker band
PasteRows(img, h, y0) ==
    [r \in 1..Len(img) |->
        IF r - 1 >= y0 /\ r - 1 < y0 + h THEN "ticker" ELSE img[r]]

\* ahead = frame_idx / FPS - (time.time() - start), in ticks
Ahead(fi, t) == fi * FramePeriod - t

\* ---------------------------------------------------------------- Init
Init ==
    /\ mainPc = "check_ffmpeg"
    /\ mainErr = "none"
    /\ ffmpegOk \in BOOLEAN
    /\ missing \in SUBSET Assets
    /\ cycle = 0
    /\ headlines = 0
    /\ ttsGen = 0
    /\ strip_w = 0
    /\ duration = 0
    /\ runPc = "idle"
    /\ now = 0
    /\ elapsed = 0
    /\ offset = 0
    /\ frame_idx = 0
    /\ composited = 0
    /\ frame = 0
    /\ writes = <<>>
    /\ sleepFor = 0
    /\ buffer = <<>>
    /\ delivered = <<>>
    /\ stdinOpen = FALSE
    /\ procs = [p \in 1..MaxCycles |-> "unspawned"]
    /\ exc = "none"
    /\ closeErr = FALSE
    /\ tdLog = <<>>
    /\ waited = 0
    /\ kills = 0
    /\ sigToExited = FALSE
    /\ tdRuns = 0
    /\ failedAt = 0
    /\ chanAfter = <<>>
    /\ spawns = 0
    /\ frameH = HEIGHT
    /\ tickerH = TICKER_HEIGHT
    /\ baseRows = <<>>
    /\ frameRows = <<>>
    /\ stripCols = <<>>
    /\ ur_list = <<>>
    /\ ticker_text = <<>>
    /\ winW = WIDTH
    /\ window = <<>>

\* ---------------------------------------------------------------- main
check_ffmpeg ==
    /\ mainPc = "check_ffmpeg"
    /\ IF ffmpegOk
         THEN mainPc' = "ensure_assets" /\ mainErr' = mainErr
         ELSE mainPc' = "failed" /\ mainErr' = "EnvironmentError"
    /\ UNCHANGED <<envVars, frameVars, textVars, spawns, cropVars, cycle, headlines, ttsGen, strip_w, duration,
                   runPc, loopVars, chanVars, exc, failedAt, tdVars>>

\* variant: only the background image is looked for
ensure_assets_bg_only ==
    /\ mainPc = "ensure_assets"
    /\ IF missing \cap {"studio.jpg"} = {}
         THEN mainPc' = "load_images" /\ mainErr' = mainErr
         ELSE mainPc' = "failed" /\ mainErr' = "FileNotFoundError"
    /\ UNCHANGED <<envVars, frameVars, textVars, spawns, cropVars, cycle, headlines, ttsGen, strip_w,
                   duration, runPc, loopVars, chanVars, exc, failedAt, tdVars>>

ensure_assets ==
    /\ mainPc = "ensure_assets"
    /\ IF missing = {}
         THEN mainPc' = "load_images" /\ mainErr' = mainErr
         ELSE mainPc' = "failed" /\ mainErr' = "FileNotFoundError"
    /\ UNCHANGED <<envVars, frameVars, textVars, spawns, cropVars, cycle, headlines, ttsGen, strip_w, duration,
                   runPc, loopVars, chanVars, exc, failedAt, tdVars>>

\* load_images, build_static_base, base.convert, ImageFont.truetype
load_images ==
    /\ mainPc = "load_images"
    /\ mainPc' = "fetch"
    /\ UNCHANGED <<envVars, frameVars, textVars, spawns, cropVars, mainErr, cycle, headlines, ttsGen, strip_w,
                   duration, runPc, loopVars, chanVars, exc, failedAt, tdVars>>

\* top of the while loop: fetch_headlines, to_urdu, make_ticker_text
fetch_headlines ==
    /\ mainPc = "fetch"
    /\ cycle < MaxCycles
    /\ cycle' = cycle + 1
    /\ headlines' = cycle + 1
    /\ mainPc' = "make_tts"
    /\ UNCHANGED <<envVars, frameVars, textVars, spawns, cropVars, mainErr, ttsGen, strip_w, duration, runPc,
                   loopVars, chanVars, exc, failedAt, tdVars>>

make_tts ==
    /\ mainPc = "make_tts"
    /\ ttsGen' = headlines
    /\ mainPc' = "build_ticker_strip"
    /\ UNCHANGED <<envVars, frameVars, textVars, spawns, cropVars, mainErr, cycle, headlines, strip_w, duration,
                   runPc, loopVars, chanVars, exc, failedAt, tdVars>>

build_ticker_strip ==
    /\ mainPc = "build_ticker_strip"
    /\ \E text_w \in TextWidths : strip_w' = text_w + TICKER_GAP + text_w
    /\ mainPc' = "run_cycle"
    /\ runPc' = "spawn"
    /\ UNCHANGED <<envVars, frameVars, textVars, spawns, cropVars, mainErr, cycle, headlines, ttsGen, duration,
                   loopVars, chanVars, exc, failedAt, tdVars>>

\* ------------------------------------------------------------- run_cycle
\* lines 171-176: spawn the encoder, take the start timestamp
ffmpeg_process ==
    /\ mainPc = "run_cycle" /\ runPc = "spawn"
    /\ \E d \in Durations : duration' = d
    /\ procs' = [procs EXCEPT ![cycle] = "running"]
    /\ stdinOpen' = TRUE
    /\ buffer' = <<>>
    /\ delivered' = <<>>
    /\ now' = 0
    /\ elapsed' = 0
    /\ offset' = 0
    /\ frame_idx' = 0
    /\ composited' = 0
    /\ frame' = 0
    /\ writes' = <<>>
    /\ sleepFor' = 0
    /\ exc' = "none"
    /\ closeErr' = FALSE
    /\ tdLog' = <<>>
    /\ waited' = 0
    /\ kills' = 0
    /\ sigToExited' = FALSE
    /\ tdRuns' = 0
    /\ failedAt' = 0
    /\ chanAfter' = <<>>
    /\ spawns' = spawns + 1
    /\ runPc' = "tick"
    /\ UNCHANGED <<envVars, frameVars, textVars, cropVars, mainVars, strip_w>>

\* variant: when the duration has elapsed the function returns at once,
\* without the finally block
CompositeBreakSkipsTeardown ==
    /\ runPc = "tick"
    /\ elapsed' = now
    /\ IF now >= duration
         THEN /\ runPc' = "done"
              /\ UNCHANGED <<now, offset, composited, frame>>
         ELSE /\ offset' = Offset(now, strip_w)
              /\ composited' = composited + 1
              /\ frame' = composited + 1
              /\ \E w \in WorkTimes : now' = now + w
              /\ runPc' = "write"
    /\ UNCHANGED <<envVars, frameVars, textVars, spawns, cropVars, mainVars,
                   strip_w, duration, frame_idx, writes, sleepFor, chanVars,
                   exc, failedAt, tdVars>>

\* lines 179-195: read the clock, test the duration, composite one frame
Composite ==
    /\ runPc = "tick"
    /\ elapsed' = now
    /\ IF now >= duration
         THEN /\ runPc' = "close"
              /\ UNCHANGED <<now, offset, composited, frame>>
         ELSE /\ offset' = Offset(now, strip_w)
              /\ composited' = composited + 1
              /\ frame' = composited + 1
              /\ \E w \in WorkTimes : now' = now + w
              /\ runPc' = "write"
    /\ UNCHANGED <<envVars, frameVars, textVars, spawns, cropVars, mainVars, strip_w, duration, frame_idx, writes,
                   sleepFor, chanVars, exc, failedAt, tdVars>>

\* variant: a failed write is caught inside the loop, which goes on
WriteSwallowsError ==
    /\ runPc = "write"
    /\ writes' = Append(writes, frame)
    /\ \E w \in WorkTimes :
         IF buffer # <<>> /\ procs[cycle] # "running"
           THEN /\ exc' = "BrokenPipeError"
                /\ failedAt' = Len(writes) + 1
                /\ runPc' = "tick"
                /\ now' = now + w
                /\ UNCHANGED <<frame_idx, sleepFor, buffer, delivered>>
           ELSE /\ delivered' = delivered \o buffer
                /\ buffer' = <<frame>>
                /\ frame_idx' = frame_idx + 1
                /\ now' = now + w
                /\ IF Ahead(frame_idx + 1, now + w) > 0
                     THEN /\ sleepFor' = Min(Ahead(frame_idx + 1, now + w),
                                             SleepCap)
                          /\ runPc' = "sleep"
                     ELSE /\ sleepFor' = 0
                          /\ runPc' = "tick"
                /\ UNCHANGED <<exc, failedAt>>
    /\ UNCHANGED <<envVars, frameVars, textVars, spawns, cropVars, mainVars, strip_w, duration, elapsed,
                   offset, composited, frame, stdinOpen, procs, tdVars>>

\* variant: when behind schedule, frame_idx jumps to the frame that is due
WriteSkipsWhenBehind ==
    /\ runPc = "write"
    /\ writes' = Append(writes, frame)
    /\ \E w \in WorkTimes :
         IF buffer # <<>> /\ procs[cycle] # "running"
           THEN /\ exc' = "BrokenPipeError"
                /\ failedAt' = Len(writes) + 1
                /\ runPc' = "close"
                /\ now' = now + w
                /\ UNCHANGED <<frame_idx, sleepFor, buffer, delivered>>
           ELSE /\ delivered' = delivered \o buffer
                /\ buffer' = <<frame>>
                /\ frame_idx' = IF (now + w) \div FramePeriod > frame_idx + 1
                                  THEN (now + w) \div FramePeriod
                                  ELSE frame_idx + 1
                /\ now' = now + w
                /\ IF Ahead(frame_idx' , now + w) > 0
                     THEN /\ sleepFor' = Min(Ahead(frame_idx', now + w),
                                             SleepCap)
                          /\ runPc' = "sleep"
                     ELSE /\ sleepFor' = 0
                          /\ runPc' = "tick"
                /\ UNCHANGED <<exc, failedAt>>
    /\ UNCHANGED <<envVars, frameVars, textVars, spawns, cropVars, mainVars, strip_w, duration, elapsed,
                   offset, composited, frame, stdinOpen, procs, tdVars>>

\* variant: the pacing uses the clock value read at the start of the tick
WriteStaleClock ==
    /\ runPc = "write"
    /\ writes' = Append(writes, frame)
    /\ \E w \in WorkTimes :
         IF buffer # <<>> /\ procs[cycle] # "running"
           THEN /\ exc' = "BrokenPipeError"
                /\ failedAt' = Len(writes) + 1
                /\ runPc' = "close"
                /\ now' = now + w
                /\ UNCHANGED <<frame_idx, sleepFor, buffer, delivered>>
           ELSE /\ delivered' = delivered \o buffer
                /\ buffer' = <<frame>>
                /\ frame_idx' = frame_idx + 1
                /\ now' = now + w
                /\ IF Ahead(frame_idx + 1, elapsed) > 0
                     THEN /\ sleepFor' = Min(Ahead(frame_idx + 1, elapsed),
                                             SleepCap)
                          /\ runPc' = "sleep"
                     ELSE /\ sleepFor' = 0
                          /\ runPc' = "tick"
                /\ UNCHANGED <<exc, failedAt>>
    /\ UNCHANGED <<envVars, frameVars, textVars, spawns, cropVars, mainVars, strip_w, duration, elapsed, offset,
                   composited, frame, stdinOpen, procs, tdVars>>

\* variant: the duration is tested again before the write and the frame
\* dropped when it has elapsed
WriteAbandonsWhenLate ==
    /\ runPc = "write"
    /\ writes' = IF now >= duration THEN writes ELSE Append(writes, frame)
    /\ \E w \in WorkTimes :
         IF now >= duration
           THEN /\ runPc' = "close"
                /\ now' = now
                /\ UNCHANGED <<frame_idx, sleepFor, buffer, delivered, exc,
                               failedAt>>
         ELSE
         IF buffer # <<>> /\ procs[cycle] # "running"
           THEN /\ exc' = "BrokenPipeError"
                /\ failedAt' = Len(writes) + 1
                /\ runPc' = "close"
                /\ now' = now + w
                /\ UNCHANGED <<frame_idx, sleepFor, buffer, delivered>>
           ELSE /\ delivered' = delivered \o buffer
                /\ buffer' = <<frame>>
                /\ frame_idx' = frame_idx + 1
                /\ now' = now + w
                /\ IF Ahead(frame_idx + 1, now + w) > 0
                     THEN /\ sleepFor' = Min(Ahead(frame_idx + 1, now + w),
                                             SleepCap)
                          /\ runPc' = "sleep"
                     ELSE /\ sleepFor' = 0
                          /\ runPc' = "tick"
                /\ UNCHANGED <<exc, failedAt>>
    /\ UNCHANGED <<envVars, frameVars, textVars, spawns, cropVars, mainVars, strip_w, duration, elapsed, offset,
                   composited, frame, stdinOpen, procs, tdVars>>

\* lines 196-201: proc.stdin.write, frame_idx += 1, pacing decision.
\* The BufferedWriter (bufsize 10**7, one frame is 1920*1080*3 bytes) holds
\* one frame: a write first pushes the held frame into the pipe, then keeps
\* the new one.  Pushing into the pipe of an exited process raises
\* BrokenPipeError.
Write ==
    /\ runPc = "write"
    /\ writes' = Append(writes, frame)
    /\ \E w \in WorkTimes :
         IF buffer # <<>> /\ procs[cycle] # "running"
           THEN /\ exc' = "BrokenPipeError"
                /\ failedAt' = Len(writes) + 1
                /\ runPc' = "close"
                /\ now' = now + w
                /\ UNCHANGED <<frame_idx, sleepFor, buffer, delivered>>
           ELSE /\ delivered' = delivered \o buffer
                /\ buffer' = <<frame>>
                /\ frame_idx' = frame_idx + 1
                /\ now' = now + w
                /\ IF Ahead(frame_idx + 1, now + w) > 0
                     THEN /\ sleepFor' = Min(Ahead(frame_idx + 1, now + w),
                                             SleepCap)
                          /\ runPc' = "sleep"
                     ELSE /\ sleepFor' = 0
                          /\ runPc' = "tick"
                /\ UNCHANGED <<exc, failedAt>>
    /\ UNCHANGED <<envVars, frameVars, textVars, spawns, cropVars, mainVars, strip_w, duration, elapsed, offset,
                   composited, frame, stdinOpen, procs, tdVars>>

\* line 201: time.sleep returns after at least the requested time
Sleep ==
    /\ runPc = "sleep"
    /\ \E over \in 0..MaxOversleep : now' = now + sleepFor + over
    /\ runPc' = "tick"
    /\ UNCHANGED <<envVars, frameVars, textVars, spawns, cropVars, mainVars, strip_w, duration, elapsed, offset,
                   frame_idx, composited, frame, writes, sleepFor, chanVars,
                   exc, failedAt, tdVars>>

\* ------------------------------------------------- teardown (finally block)
\* the part of the channel that a caller can observe after teardown
ChanState ==
    [stdin |-> stdinOpen, pending |-> buffer, out |-> delivered,
     live |-> procs[cycle] = "running"]

\* variant: an error of proc.stdin.close() is not caught and the rest of the
\* finally block is skipped
CloseStdinPropagates ==
    /\ runPc = "close"
    /\ tdLog' = Append(tdLog, "close")
    /\ IF stdinOpen /\ buffer # <<>> /\ procs[cycle] # "running"
         THEN /\ closeErr' = TRUE
              /\ exc' = "BrokenPipeError"
              /\ runPc' = "done"
              /\ delivered' = delivered
         ELSE /\ closeErr' = closeErr
              /\ exc' = exc
              /\ runPc' = "wait"
              /\ delivered' = IF stdinOpen THEN delivered \o buffer
                                           ELSE delivered
    /\ buffer' = <<>>
    /\ stdinOpen' = FALSE
    /\ UNCHANGED <<envVars, frameVars, textVars, spawns, cropVars, mainVars, strip_w, duration, loopVars,
                   procs, failedAt, waited, kills, sigToExited, tdRuns,
                   chanAfter>>

\* lines 203-206: proc.stdin.close() flushes the held frame and closes the
\* pipe end; an error of the flush is caught by `except Exception: pass`.
\* Closing an already closed stream does nothing.
CloseStdin ==
    /\ runPc = "close"
    /\ tdLog' = Append(tdLog, "close")
    /\ IF stdinOpen /\ buffer # <<>>
         THEN IF procs[cycle] = "running"
                THEN delivered' = delivered \o buffer /\ closeErr' = closeErr
                ELSE delivered' = delivered /\ closeErr' = TRUE
         ELSE UNCHANGED <<delivered, closeErr>>
    /\ buffer' = <<>>
    /\ stdinOpen' = FALSE
    /\ runPc' = "wait"
    /\ UNCHANGED <<envVars, frameVars, textVars, spawns, cropVars, mainVars, strip_w, duration, loopVars, procs, exc,
                   failedAt, waited, kills, sigToExited, tdRuns, chanAfter>>

\* variant: proc.wait() without a timeout returns only once the process has
\* exited
WaitProcNoTimeout ==
    /\ runPc = "wait"
    /\ procs[cycle] = "exited"
    /\ tdLog' = Append(tdLog, "wait")
    /\ waited' = 0
    /\ procs' = procs
    /\ runPc' = "done"
    /\ tdRuns' = tdRuns + 1
    /\ chanAfter' = Append(chanAfter,
         [stdin |-> stdinOpen, pending |-> buffer, out |-> delivered,
          live |-> FALSE])
    /\ UNCHANGED <<envVars, frameVars, textVars, spawns, cropVars, mainVars,
                   strip_w, duration, loopVars, buffer, delivered, stdinOpen,
                   exc, failedAt, closeErr, kills, sigToExited>>

\* lines 207-209: proc.wait(timeout=5) returns when the process has exited,
\* at once if it already had, and raises TimeoutExpired after 5 seconds.
WaitProc ==
    /\ runPc = "wait"
    /\ tdLog' = Append(tdLog, "wait")
    /\ \/ /\ procs[cycle] = "exited"
          /\ waited' = 0
          /\ procs' = procs
          /\ runPc' = "done"
       \/ /\ procs[cycle] # "exited"
          /\ \E w \in 0..(WaitTimeout - 1) : waited' = w
          /\ procs' = [procs EXCEPT ![cycle] = "exited"]
          /\ runPc' = "done"
       \/ /\ procs[cycle] # "exited"
          /\ waited' = WaitTimeout
          /\ procs' = procs
          /\ runPc' = "kill"
    /\ IF runPc' = "done"
         THEN /\ tdRuns' = tdRuns + 1
              /\ chanAfter' = Append(chanAfter,
                   [stdin |-> stdinOpen, pending |-> buffer,
                    out |-> delivered, live |-> procs'[cycle] = "running"])
         ELSE UNCHANGED <<tdRuns, chanAfter>>
    /\ UNCHANGED <<envVars, frameVars, textVars, spawns, cropVars, mainVars, strip_w, duration, loopVars, buffer,
                   delivered, stdinOpen, exc, failedAt, closeErr, kills,
                   sigToExited>>

\* variant: the signal is sent without looking whether the process exited
KillProcNoPoll ==
    /\ runPc = "kill"
    /\ tdLog' = Append(tdLog, "kill")
    /\ procs' = [procs EXCEPT ![cycle] =
                   IF procs[cycle] = "exited" THEN "exited" ELSE "killed"]
    /\ kills' = kills + 1
    /\ sigToExited' = (sigToExited \/ procs[cycle] = "exited")
    /\ tdRuns' = tdRuns + 1
    /\ chanAfter' = Append(chanAfter,
         [stdin |-> stdinOpen, pending |-> buffer, out |-> delivered,
          live |-> FALSE])
    /\ runPc' = "done"
    /\ UNCHANGED <<envVars, frameVars, textVars, spawns, cropVars, mainVars, strip_w, duration, loopVars,
                   buffer, delivered, stdinOpen, exc, failedAt, closeErr,
                   waited>>

\* variant: kill() on a process that is gone raises out of the finally block
KillProcRaisesWhenGone ==
    /\ runPc = "kill"
    /\ tdLog' = Append(tdLog, "kill")
    /\ IF procs[cycle] = "exited"
         THEN UNCHANGED <<procs, kills>>
         ELSE /\ procs' = [procs EXCEPT ![cycle] = "killed"]
              /\ kills' = kills + 1
    /\ sigToExited' = sigToExited
    /\ exc' = IF procs[cycle] = "exited" THEN "ProcessLookupError" ELSE exc
    /\ tdRuns' = tdRuns + 1
    /\ chanAfter' = Append(chanAfter,
         [stdin |-> stdinOpen, pending |-> buffer, out |-> delivered,
          live |-> FALSE])
    /\ runPc' = "done"
    /\ UNCHANGED <<envVars, frameVars, textVars, spawns, cropVars, mainVars, strip_w, duration, loopVars, buffer,
                   delivered, stdinOpen, failedAt, closeErr, waited>>

\* line 210: proc.kill(); Popen.send_signal polls first and sends nothing to
\* a process that has exited.
KillProc ==
    /\ runPc = "kill"
    /\ tdLog' = Append(tdLog, "kill")
    /\ IF procs[cycle] = "exited"
         THEN UNCHANGED <<procs, kills>>
         ELSE /\ procs' = [procs EXCEPT ![cycle] = "killed"]
              /\ kills' = kills + 1
    /\ sigToExited' = sigToExited
    /\ tdRuns' = tdRuns + 1
    /\ chanAfter' = Append(chanAfter,
         [stdin |-> stdinOpen, pending |-> buffer, out |-> delivered,
          live |-> FALSE])
    /\ runPc' = "done"
    /\ UNCHANGED <<envVars, frameVars, textVars, spawns, cropVars, mainVars, strip_w, duration, loopVars, buffer,
                   delivered, stdinOpen, exc, failedAt, closeErr, waited>>

\* end of the finally block: a pending exception propagates out of run_cycle
\* and, uncaught in main (line 237), out of the program; otherwise run_cycle
\* returns and the while loop of main goes round.
EndCycle ==
    /\ mainPc = "run_cycle" /\ runPc = "done"
    /\ IF exc = "none"
         THEN runPc' = "returned" /\ mainPc' = "fetch" /\ mainErr' = mainErr
         ELSE runPc' = "raised" /\ mainPc' = "crashed" /\ mainErr' = exc
    /\ UNCHANGED <<envVars, frameVars, textVars, spawns, cropVars, cycle, headlines, ttsGen, strip_w, duration,
                   loopVars, chanVars, exc, failedAt, tdVars>>

\* ------------------------------------------------------------ environment
\* the encoder process of the running cycle exits on its own
EncoderExits ==
    /\ runPc \in {"tick", "write", "sleep", "close", "wait", "kill"}
    /\ procs[cycle] = "running"
    /\ procs' = [procs EXCEPT ![cycle] = "exited"]
    /\ UNCHANGED <<envVars, frameVars, textVars, spawns, cropVars, mainVars, strip_w, duration, runPc, loopVars,
                   buffer, delivered, stdinOpen, exc, failedAt, tdVars>>

\* a process that was sent SIGKILL dies
KilledExits ==
    /\ \E p \in 1..MaxCycles :
         /\ procs[p] = "killed"
         /\ procs' = [procs EXCEPT ![p] = "exited"]
    /\ UNCHANGED <<envVars, frameVars, textVars, spawns, cropVars, mainVars, strip_w, duration, runPc, loopVars,
                   buffer, delivered, stdinOpen, exc, failedAt, tdVars>>

Next ==
    \/ check_ffmpeg
    \/ ensure_assets
    \/ load_images
    \/ fetch_headlines
    \/ make_tts
    \/ build_ticker_strip
    \/ ffmpeg_process
    \/ Composite
    \/ Write
    \/ Sleep
    \/ CloseStdin
    \/ WaitProc
    \/ KillProc
    \/ EndCycle
    \/ EncoderExits
    \/ KilledExits

Spec == Init /\ [][Next]_vars

\* The steps of run_cycle are steps of the one thread of the program: each
\* is taken once it can be (the clock advances, a blocking write returns or
\* raises, wait returns or times out).  Nothing is assumed of the encoder
\* process or of the calls main makes between cycles.
Fairness ==
    /\ WF_vars(Composite)
    /\ WF_vars(Write)
    /\ WF_vars(Sleep)
    /\ WF_vars(CloseStdin)
    /\ WF_vars(WaitProc)
    /\ WF_vars(KillProc)
    /\ WF_vars(EndCycle)

SpecLive == Init /\ [][Next]_vars /\ Fairness

\* ------------------------------------------ the crop, for any strip and window
\* run_cycle's offset and window computation (lines 179-193) applied to a
\* strip of any width, a window of any width and any elapsed time.
MaxStripW == 6
MaxWinW == 13
MaxCropTime == 30
MaxFrameH == 3
ScenarioStripW == 500 + TICKER_GAP + 500
ScenarioTime == 7 * TicksPerSec + TicksPerSec \div 8

InitCrop ==
    /\ mainPc = "run_cycle"
    /\ mainErr = "none"
    /\ ffmpegOk = TRUE
    /\ missing = {}
    /\ cycle = 1
    /\ headlines = 1
    /\ ttsGen = 1
    /\ \/ /\ strip_w \in 1..MaxStripW
          /\ winW \in 1..MaxWinW
          /\ now \in 0..MaxCropTime
          /\ frameH \in 1..MaxFrameH
          /\ tickerH \in 1..frameH
       \/ /\ strip_w = ScenarioStripW
          /\ winW = WIDTH
          /\ now \in (ScenarioTime - MaxCropTime)..ScenarioTime
          /\ frameH = HEIGHT
          /\ tickerH = TICKER_HEIGHT
    /\ duration = ScenarioTime + 1
    /\ runPc = "crop"
    /\ elapsed = 0
    /\ offset = 0
    /\ frame_idx = 0
    /\ composited = 0
    /\ frame = 0
    /\ writes = <<>>
    /\ sleepFor = 0
    /\ buffer = <<>>
    /\ delivered = <<>>
    /\ stdinOpen = TRUE
    /\ procs = [p \in 1..MaxCycles |-> IF p = 1 THEN "running" ELSE "unspawned"]
    /\ exc = "none"
    /\ closeErr = FALSE
    /\ tdLog = <<>>
    /\ waited = 0
    /\ kills = 0
    /\ sigToExited = FALSE
    /\ tdRuns = 0
    /\ failedAt = 0
    /\ chanAfter = <<>>
    /\ spawns = 1
    /\ baseRows = [r \in 1..frameH |-> "base"]
    /\ frameRows = <<>>
    /\ stripCols = [i \in 1..strip_w |-> i - 1]
    /\ ur_list = <<>>
    /\ ticker_text = <<>>
    /\ window = <<>>

\* variant: the window is pasted onto the shared base frame, without a copy
CropWindowInPlace ==
    /\ runPc = "crop"
    /\ elapsed' = now
    /\ offset' = Offset(now, strip_w)
    /\ window' = Window(strip_w, Offset(now, strip_w), winW)
    /\ frameRows' = PasteRows(baseRows, tickerH, frameH - tickerH)
    /\ baseRows' = PasteRows(baseRows, tickerH, frameH - tickerH)
    /\ runPc' = "cropped"
    /\ UNCHANGED <<envVars, textVars, spawns, mainVars, strip_w, duration,
                   now, frame_idx, composited, frame, writes, sleepFor,
                   chanVars, exc, failedAt, tdVars, winW, frameH, tickerH,
                   stripCols>>

\* lines 179-195 for one frame: offset, window, and the paste of the window
\* at (0, ticker_y) onto a copy of the base frame
CropWindow ==
    /\ runPc = "crop"
    /\ elapsed' = now
    /\ offset' = Offset(now, strip_w)
    /\ window' = Window(strip_w, Offset(now, strip_w), winW)
    /\ frameRows' = PasteRows(baseRows, tickerH, frameH - tickerH)
    /\ baseRows' = baseRows
    /\ runPc' = "cropped"
    /\ UNCHANGED <<envVars, textVars, spawns, mainVars, strip_w, duration,
                   now, frame_idx, composited, frame, writes, sleepFor,
                   chanVars, exc, failedAt, tdVars, winW, frameH, tickerH,
                   stripCols>>

NextCrop == CropWindow

SpecCrop == InitCrop /\ [][NextCrop]_vars

\* --------------------------------------------- teardown run more than once
\* The teardown steps of run_cycle entered from every state in which the
\* frame loop can leave the channel, and entered again after they finished.
MaxTeardowns == 3
MaxHeld == 2

InitTeardown ==
    /\ mainPc = "run_cycle"
    /\ mainErr = "none"
    /\ ffmpegOk = TRUE
    /\ missing = {}
    /\ cycle = 1
    /\ headlines = 1
    /\ ttsGen = 1
    /\ strip_w = TICKER_GAP
    /\ duration = MaxDuration
    /\ runPc = "close"
    /\ now = MaxDuration
    /\ elapsed = MaxDuration
    /\ offset = 0
    /\ \E n \in 0..MaxHeld :
         /\ frame_idx = n
         /\ composited = n
         /\ frame = n
         /\ writes = [k \in 1..n |-> k]
         /\ buffer = IF n = 0 THEN <<>> ELSE <<n>>
         /\ delivered = [k \in 1..(IF n = 0 THEN 0 ELSE n - 1) |-> k]
    /\ sleepFor = 0
    /\ stdinOpen = TRUE
    /\ \E st \in {"running", "exited"} :
         procs = [p \in 1..MaxCycles |-> IF p = 1 THEN st ELSE "unspawned"]
    /\ exc = "none"
    /\ closeErr = FALSE
    /\ tdLog = <<>>
    /\ waited = 0
    /\ kills = 0
    /\ sigToExited = FALSE
    /\ tdRuns = 0
    /\ failedAt = 0
    /\ chanAfter = <<>>
    /\ spawns = 1
    /\ frameH = HEIGHT
    /\ tickerH = TICKER_HEIGHT
    /\ baseRows = <<>>
    /\ frameRows = <<>>
    /\ stripCols = <<>>
    /\ ur_list = <<>>
    /\ ticker_text = <<>>
    /\ winW = WIDTH
    /\ window = <<>>

\* the finally block is entered once more on the same channel
TeardownAgain ==
    /\ runPc = "done"
    /\ tdRuns < MaxTeardowns
    /\ runPc' = "close"
    /\ UNCHANGED <<envVars, frameVars, textVars, spawns, cropVars, mainVars, strip_w, duration, loopVars,
                   chanVars, exc, failedAt, tdVars>>

NextTeardown ==
    \/ CloseStdin
    \/ WaitProc
    \/ KillProc
    \/ EncoderExits
    \/ KilledExits
    \/ TeardownAgain

SpecTeardown == InitTeardown /\ [][NextTeardown]_vars

\* ------------------------------------------ make_ticker_text, for any headlines
\* A string is the sequence of its characters; len() is Len.  main passes a
\* list with at least one headline (line 224), each the translation of a
\* non-empty title.
MinTickerLen == 40
PadTimes == 6
MaxHeadlines == 2
MaxHeadLen == 20

\* sep: two spaces, an em dash, two spaces
Sep == <<" ", " ", "-", " ", " ">>

RECURSIVE Join(_, _)
\* sep.join(list)
Join(list, sep) ==
    IF Len(list) = 0 THEN <<>>
    ELSE IF Len(list) = 1 THEN list[1]
    ELSE list[1] \o sep \o Join(Tail(list), sep)

RECURSIVE Repeat(_, _)
\* str * n
Repeat(str, n) == IF n <= 0 THEN <<>> ELSE str \o Repeat(str, n - 1)

\* lines 101-106
MakeTickerText(headlines_ur) ==
    LET base == Join(headlines_ur, Sep)
    IN  IF Len(base) < MinTickerLen THEN Repeat(base \o Sep, PadTimes)
                                    ELSE base

Headline(n) == [i \in 1..n |-> "x"]

InitText ==
    /\ mainPc = "fetch"
    /\ mainErr = "none"
    /\ ffmpegOk = TRUE
    /\ missing = {}
    /\ cycle = 0
    /\ headlines = 0
    /\ ttsGen = 0
    /\ strip_w = 0
    /\ duration = 0
    /\ runPc = "text"
    /\ now = 0
    /\ elapsed = 0
    /\ offset = 0
    /\ frame_idx = 0
    /\ composited = 0
    /\ frame = 0
    /\ writes = <<>>
    /\ sleepFor = 0
    /\ buffer = <<>>
    /\ delivered = <<>>
    /\ stdinOpen = FALSE
    /\ procs = [p \in 1..MaxCycles |-> "unspawned"]
    /\ exc = "none"
    /\ closeErr = FALSE
    /\ tdLog = <<>>
    /\ waited = 0
    /\ kills = 0
    /\ sigToExited = FALSE
    /\ tdRuns = 0
    /\ failedAt = 0
    /\ chanAfter = <<>>
    /\ winW = WIDTH
    /\ window = <<>>
    /\ spawns = 0
    /\ frameH = HEIGHT
    /\ tickerH = TICKER_HEIGHT
    /\ baseRows = <<>>
    /\ frameRows = <<>>
    /\ stripCols = <<>>
    /\ \E k \in 1..MaxHeadlines :
         ur_list \in [1..k -> {Headline(n) : n \in 1..MaxHeadLen}]
    /\ ticker_text = <<>>

make_ticker_text ==
    /\ runPc = "text"
    /\ ticker_text' = MakeTickerText(ur_list)
    /\ runPc' = "texted"
    /\ UNCHANGED <<envVars, frameVars, spawns, cropVars, mainVars, strip_w,
                   duration, loopVars, chanVars, exc, failedAt, tdVars,
                   ur_list>>

NextText == make_ticker_text

SpecText == InitText /\ [][NextText]_vars

TypeOK ==
    /\ runPc \in {"idle", "spawn", "tick", "write", "sleep", "close", "wait",
                  "kill", "done", "returned", "raised", "crop", "cropped",
                  "text", "texted"}
    /\ mainPc \in {"check_ffmpeg", "ensure_assets", "load_images", "fetch",
                   "make_tts", "build_ticker_strip", "run_cycle", "failed",
                   "crashed"}
    /\ Len(buffer) <= 1
    /\ now >= 0

\* ===================================================================== claims
FloorDF(d) == (d * FPS) \div TicksPerSec
CeilDF(d) == (d * FPS + TicksPerSec - 1) \div TicksPerSec

\* C1: a cycle of duration D in which no write fails has written between
\* floor(D*FPS) and ceil(D*FPS)+1 frames when run_cycle returns.
C1_FrameCountBounded ==
    (runPc = "returned" /\ failedAt = 0) =>
        /\ FloorDF(duration) <= Len(writes)
        /\ Len(writes) <= CeilDF(duration) + 1

\* C2: every column x of the ticker window shows strip column
\* (offset + x) mod strip_w, for every strip width, window width and offset.
C2_WindowTilesStrip ==
    runPc = "cropped" =>
        \A x \in 1..winW : window[x] = (offset + x - 1) % strip_w

\* C3: once a write has failed, teardown runs exactly once in that cycle and
\* no further write is issued.
C3_FailedWriteTearsDownOnce ==
    failedAt # 0 =>
        /\ Len(writes) = failedAt
        /\ exc # "none"
        /\ runPc \in {"close", "wait", "kill", "done", "raised"}
        /\ tdRuns <= 1
        /\ Len(SelectSeq(tdLog, LAMBDA e : e = "close")) <= 1
        /\ runPc \in {"done", "raised"} =>
             /\ tdRuns = 1
             /\ Len(SelectSeq(tdLog, LAMBDA e : e = "close")) = 1

C3_Witness ==
    /\ failedAt >= 3
    /\ runPc = "raised"
    /\ tdRuns = 1

\* C4: a failed frame write ends only its cycle; main does not terminate
\* because of it.
C4_EncoderErrorKeepsMainAlive ==
    failedAt # 0 => mainPc # "crashed"

\* C5: teardown closes stdin, then waits, then kills, the kill only after a
\* wait that timed out; a failing close does not stop the wait and the kill;
\* run_cycle is never left without a finished teardown.
IsPrefix(s, t) == Len(s) <= Len(t) /\ \A i \in 1..Len(s) : s[i] = t[i]

C5_TeardownOrder ==
    /\ IsPrefix(tdLog, <<"close", "wait", "kill">>)
    /\ runPc = "wait" => tdLog = <<"close">>
    /\ runPc = "kill" => tdLog = <<"close", "wait">> /\ waited = WaitTimeout
    /\ runPc \in {"done", "returned", "raised"} =>
         /\ tdRuns = 1
         /\ \/ /\ tdLog = <<"close", "wait">>
               /\ kills = 0
               /\ mainPc \in {"run_cycle", "fetch", "crashed"} =>
                    procs[cycle] = "exited"
            \/ tdLog = <<"close", "wait", "kill">> /\ waited = WaitTimeout
    /\ kills <= 1
    /\ kills = 1 => tdLog = <<"close", "wait", "kill">>

C5_Witness ==
    /\ runPc = "raised"
    /\ closeErr
    /\ tdLog = <<"close", "wait">>

\* C6: when run_cycle returns without an error, every frame passed to write
\* has reached the pipe; a frame that could not be pushed is never dropped
\* silently.
C6_NoSilentLoss ==
    (runPc \in {"done", "returned"} /\ exc = "none") => delivered = writes

\* C7: the k-th write of a cycle carries the k-th composited frame, frame_idx
\* counts the writes one by one, and no composited frame is skipped,
\* duplicated or reordered on its way to the pipe.
C7_FramesInOrder ==
    runPc \in {"tick", "write", "sleep", "close", "wait", "kill", "done",
               "returned", "raised"} =>
        /\ \A k \in 1..Len(writes) : writes[k] = k
        /\ composited = Len(writes) + (IF runPc = "write" THEN 1 ELSE 0)
        /\ frame_idx = Len(writes) - (IF failedAt # 0 THEN 1 ELSE 0)
        /\ IsPrefix(delivered \o buffer, writes)
        /\ (stdinOpen /\ failedAt = 0) => delivered \o buffer = writes

C7_Witness ==
    /\ runPc = "tick"
    /\ Len(writes) >= 2
    /\ Ahead(frame_idx, now) < 0
    /\ now < duration

\* C8: the offset of a frame is floor(t * scroll_speed) mod strip_width for
\* the elapsed time t read at the start of the tick, so it lies in
\* [0, strip_width); at t = 7.125 s it is 1140 mod strip_width.
C8_OffsetFormula ==
    runPc = "cropped" =>
        /\ offset =
             ((elapsed * TICKER_SPEED_PX_PER_SEC) \div TicksPerSec) % strip_w
        /\ 0 <= offset /\ offset < strip_w
        /\ elapsed = ScenarioTime => offset = 1140 % strip_w

C8_Witness ==
    /\ runPc = "cropped"
    /\ elapsed = ScenarioTime
    /\ strip_w = ScenarioStripW
    /\ offset = 0

\* C9: when ffmpeg cannot be run or an asset file is missing, main stops with
\* an error before a cycle is started, an encoder spawned or a frame written.
C9_NoStreamingAfterFailedPrecondition ==
    (~ffmpegOk \/ missing # {}) =>
        /\ mainPc \in {"check_ffmpeg", "ensure_assets", "failed"}
        /\ cycle = 0
        /\ \A p \in 1..MaxCycles : procs[p] = "unspawned"
        /\ writes = <<>>
        /\ runPc = "idle"
        /\ mainPc = "failed" =>
             mainErr \in {"EnvironmentError", "FileNotFoundError"}

C9_Witness ==
    /\ mainPc = "failed"
    /\ ffmpegOk
    /\ missing = {"Urdu.ttf"}

\* C10: teardown run on an exited process, or run again after a teardown,
\* raises nothing, signals no exited process, and ends in the channel state
\* the first teardown ended in.
C10_TeardownIdempotent ==
    /\ exc = "none"
    /\ ~sigToExited
    /\ \A i \in 1..Len(chanAfter) :
         /\ chanAfter[i] = chanAfter[1]
         /\ ~chanAfter[i].stdin
         /\ ~chanAfter[i].live
         /\ chanAfter[i].pending = <<>>
    /\ tdRuns = Len(chanAfter)
    /\ (runPc = "done" /\ tdRuns >= 1) => ChanState = chanAfter[1]

C10_Witness ==
    /\ runPc = "done"
    /\ tdRuns = 3
    /\ kills = 0
    /\ closeErr

\* C11: each cycle spawns exactly one encoder process; a process that is
\* running belongs to the cycle in progress; the teardown of cycle n is
\* finished before the process of cycle n+1 is spawned, so at most one
\* process that has not been torn down exists and frames are written only
\* while no process of another cycle is running.
C11_OneEncoderPerCycle ==
    /\ spawns = Cardinality({p \in 1..MaxCycles : procs[p] # "unspawned"})
    /\ spawns = IF mainPc \in {"make_tts", "build_ticker_strip"}
                   \/ (mainPc = "run_cycle" /\ runPc = "spawn")
                  THEN cycle - 1 ELSE cycle
    /\ \A p \in 1..MaxCycles : p > spawns => procs[p] = "unspawned"
    /\ \A p \in 1..MaxCycles :
         procs[p] = "running" =>
            /\ p = cycle
            /\ mainPc = "run_cycle"
            /\ runPc \in {"tick", "write", "sleep", "close", "wait", "kill"}
    /\ Cardinality({p \in 1..MaxCycles : procs[p] = "running"}) <= 1
    /\ (runPc = "spawn" /\ cycle > 1) =>
         /\ tdRuns = 1
         /\ \A p \in 1..(cycle - 1) : procs[p] \in {"exited", "killed"}
    /\ runPc = "write" => \A p \in 1..MaxCycles : p # cycle => procs[p] # "running"

C11_Witness ==
    /\ cycle = 2
    /\ spawns = 2
    /\ procs[1] = "killed"
    /\ procs[2] = "running"
    /\ Len(writes) >= 1

\* C12: after the write of frame i the clock is read again and the pacer
\* asks for a sleep of min(i/FPS - elapsed, 0.02 s) when it is ahead of the
\* target, and for none when it is not; the sleep asked for never exceeds
\* 0.02 s nor the time the loop is ahead.
C12_PacerSleep ==
    /\ runPc = "sleep" =>
         /\ frame_idx >= 1
         /\ Ahead(frame_idx, now) > 0
         /\ sleepFor = Min(frame_idx * FramePeriod - now, SleepCap)
         /\ sleepFor > 0
         /\ sleepFor <= SleepCap
         /\ sleepFor <= frame_idx * FramePeriod - now
    /\ (runPc = "tick" /\ frame_idx >= 1 /\ sleepFor = 0) =>
         frame_idx * FramePeriod - now <= 0
    /\ (runPc = "tick" /\ sleepFor > 0) => now >= elapsed + sleepFor

C12_Witness ==
    /\ runPc = "sleep"
    /\ sleepFor < SleepCap
    /\ now > elapsed

\* C13: the duration is tested only at the start of a tick: a frame is
\* composited and written only when the elapsed time read there is below the
\* duration, the first tick that reads an elapsed time >= duration goes to
\* teardown without a frame, and a tick that has started is finished even
\* when the duration runs out while it composites, writes or sleeps.
C13_StopOnlyBetweenFrames ==
    /\ runPc \in {"write", "sleep"} => elapsed < duration
    /\ runPc = "tick" => composited = Len(writes) /\ frame_idx = composited
    /\ (runPc \in {"close", "wait", "kill", "done", "returned", "raised"}
          /\ failedAt = 0) =>
         /\ elapsed >= duration
         /\ composited = Len(writes)
         /\ frame_idx = composited
    /\ failedAt # 0 => elapsed < duration /\ failedAt = composited

C13_Witness ==
    /\ runPc = "sleep"
    /\ now - sleepFor >= duration
    /\ elapsed < duration
    /\ Len(writes) = composited

\* C14: every cycle terminates: once the frame loop of a cycle has been
\* entered, run_cycle eventually finishes its teardown and returns or raises.
C14_CycleTerminates ==
    (runPc = "tick") ~> (runPc \in {"returned", "raised"})

C14_Witness ==
    /\ runPc = "returned"
    /\ tdLog = <<"close", "wait", "kill">>
    /\ kills = 1
    /\ now >= duration

\* C15: for a window no wider than the strip, the window is
\* strip[offset : offset+W] when that fits, and otherwise strip[offset :
\* strip_w] followed at column strip_w - offset by strip[0 : W - (strip_w -
\* offset)]; the two widths add up to W.
C15_SingleWrap ==
    (runPc = "cropped" /\ winW <= strip_w) =>
        /\ Len(window) = winW
        /\ IF offset + winW <= strip_w
             THEN \A x \in 1..winW : window[x] = stripCols[offset + x]
             ELSE LET firstW == strip_w - offset
                      secondW == winW - (strip_w - offset)
                  IN  /\ firstW >= 1 /\ secondW >= 1
                      /\ firstW + secondW = winW
                      /\ \A x \in 1..firstW : window[x] = stripCols[offset + x]
                      /\ \A x \in 1..secondW :
                           window[firstW + x] = stripCols[x]

C15_Witness ==
    /\ runPc = "cropped"
    /\ winW <= strip_w
    /\ offset + winW > strip_w
    /\ winW >= 3
    /\ offset >= 2

\* C16: for a window at most twice as wide as the strip, every window column
\* x shows strip column (offset + x) mod strip_w.
C16_CorrectUpToTwiceStrip ==
    (runPc = "cropped" /\ winW <= 2 * strip_w) =>
        \A x \in 1..winW : window[x] = stripCols[((offset + x - 1) % strip_w) + 1]

\* C17: a composited frame differs from the base frame only in its bottom
\* TICKER_HEIGHT rows, and the shared base frame and the ticker strip are
\* what they were before the frame was composited.
C17_OnlyBandChanges ==
    runPc = "cropped" =>
        /\ Len(frameRows) = frameH
        /\ \A r \in 1..frameH :
             frameRows[r] =
                IF r - 1 < frameH - tickerH THEN baseRows[r] ELSE "ticker"
        /\ baseRows = [r \in 1..frameH |-> "base"]
        /\ stripCols = [i \in 1..strip_w |-> i - 1]

C17_Witness ==
    /\ runPc = "cropped"
    /\ frameH = HEIGHT
    /\ tickerH = TICKER_HEIGHT
    /\ frameRows[HEIGHT - TICKER_HEIGHT] = "base"
    /\ frameRows[HEIGHT - TICKER_HEIGHT + 1] = "ticker"
    /\ frameRows[HEIGHT] = "ticker"

\* C18: when the duration ends normally and the encoder does not exit
\* within the timeout, the timeout and the kill stay inside teardown:
\* run_cycle returns, main goes on to the next cycle, and nothing but a
\* failed write ever ends main.
C18_KillAbsorbed ==
    /\ failedAt = 0 =>
         /\ exc = "none"
         /\ runPc # "raised"
         /\ mainPc # "crashed"
    /\ (failedAt = 0 /\ runPc = "done") => tdRuns = 1
    /\ runPc = "returned" =>
         mainPc \in {"fetch", "make_tts", "build_ticker_strip"}
    /\ mainPc = "crashed" => mainErr = "BrokenPipeError" /\ failedAt # 0

C18_Witness ==
    /\ cycle = 2
    /\ procs[1] = "killed"
    /\ runPc = "write"
    /\ mainPc = "run_cycle"
    /\ exc = "none"

\* C19: TTS_FILE is rewritten by make_tts only when no encoder process of an
\* earlier cycle is still alive, also after a teardown that timed out and
\* only sent the kill.
C19_TtsNotRewrittenWhileEncoderAlive ==
    mainPc = "build_ticker_strip" =>
        \A p \in 1..MaxCycles : procs[p] \in {"unspawned", "exited"}

\* C20: make_ticker_text returns at least 40 characters for every list of
\* headlines.
C20_TickerTextMinLength ==
    runPc = "texted" => Len(ticker_text) >= MinTickerLen

====
